---- MODULE Spec2Model ----
(***************************************************************************)
(* Model of src/helpers.py of TADW: the edge-list reader and target matrix *)
(* builder (read_graph), the adjacency normalizer (normalize_adjacency),   *)
(* the sparse feature loader (read_sparse_features) and the command line   *)
(* parser (parameter_parser).                                              *)
(*                                                                         *)
(* Floating point entries are modelled as exact fractions <<num, den>> in  *)
(* lowest terms; <<1,0>>, <<-1,0>> and <<0,0>> stand for +Inf, -Inf, NaN.  *)
(* Rounding of np.float32 is not modelled.                                 *)
(***************************************************************************)
EXTENDS Integers, Sequences, FiniteSets, TLC

VARIABLES pc, file, order, graph, rawA, heap, A, powered_A, out_A, i, ret,
          features, argv

vars == <<pc, file, order, graph, rawA, heap, A, powered_A, out_A, i, ret,
          features, argv>>

(***************************************************************************)
(* Bounds of the explored inputs.                                          *)
(***************************************************************************)
MaxNode == 2
MaxDirectNodes == 3
MaxRows == 2
MaxOrder == 3
MinOrder == 0 - 1
MaxFeatNode == 2
MaxFeat == 3
MaxItems == 3
MaxTokLen == 2

NodeIds == 0..MaxNode
Orders == MinOrder..MaxOrder

(***************************************************************************)
(* Float arithmetic (values of dtype np.float32, Python floats).           *)
(***************************************************************************)
Abs(x) == IF x < 0 THEN 0 - x ELSE x

Sign(x) == IF x < 0 THEN 0 - 1 ELSE IF x > 0 THEN 1 ELSE 0

RECURSIVE GCD(_, _)
GCD(a, b) == IF b = 0 THEN a ELSE GCD(b, a % b)

Rat(n, d) ==
    IF d = 0 THEN <<Sign(n), 0>>
    ELSE LET g == GCD(Abs(n), Abs(d))
         IN  <<(Sign(d) * n) \div g, Abs(d) \div g>>

Zero == Rat(0, 1)

One == Rat(1, 1)

RAdd(x, y) == Rat(x[1] * y[2] + y[1] * x[2], x[2] * y[2])

RMul(x, y) == Rat(x[1] * y[1], x[2] * y[2])

IsFinite(x) == x[2] # 0

RSum(s) ==
    LET T[n \in 0..Len(s)] == IF n = 0 THEN Zero ELSE RAdd(T[n - 1], s[n])
    IN  T[Len(s)]

(***************************************************************************)
(* Sequences and sets.                                                     *)
(***************************************************************************)
Range(s) == {s[k] : k \in DOMAIN s}

RECURSIVE SetToSeq(_)
SetToSeq(S) ==
    IF S = {} THEN <<>>
    ELSE LET x == CHOOSE y \in S : TRUE IN <<x>> \o SetToSeq(S \ {x})

SeqsUpTo(S, lo, hi) == UNION {[1..n -> S] : n \in lo..hi}

\* the function on S with value F(x) at x, with every value computed once
Tabulate(S, F(_)) ==
    LET xs == SetToSeq(S)
        T[n \in 0..Len(xs)] ==
            IF n = 0 THEN <<>> ELSE (xs[n] :> F(xs[n])) @@ T[n - 1]
    IN  T[Len(xs)]

Max(S) == CHOOSE x \in S : \A y \in S : y <= x

Raised(name) == [kind |-> "error", name |-> name]

(***************************************************************************)
(* scipy.sparse matrices: shape and value of every position.  Duplicate    *)
(* (row, column) entries of a coo_matrix are summed, and a product takes   *)
(* only the stored (non-zero) entries of its factors.                      *)
(***************************************************************************)
Positions(shape) == (0..(shape[1] - 1)) \X (0..(shape[2] - 1))

CooMatrix(values, index_1, index_2, shape) ==
    IF \E k \in DOMAIN values :
          \/ index_1[k] < 0 \/ index_1[k] >= shape[1]
          \/ index_2[k] < 0 \/ index_2[k] >= shape[2]
    THEN Raised("ValueError")
    ELSE [kind |-> "matrix", shape |-> shape,
          val |-> Tabulate(Positions(shape), LAMBDA p :
                     LET at == SetToSeq({k \in DOMAIN values :
                                   index_1[k] = p[1] /\ index_2[k] = p[2]})
                     IN  RSum([n \in 1..Len(at) |-> values[at[n]]]))]

Dot(X, Y) ==
    LET shape == <<X.shape[1], Y.shape[2]>>
    IN  [kind |-> "matrix", shape |-> shape,
         val |-> Tabulate(Positions(shape), LAMBDA p :
                    LET at == SetToSeq({k \in 0..(X.shape[2] - 1) :
                                  /\ X.val[<<p[1], k>>] # Zero
                                  /\ Y.val[<<k, p[2]>>] # Zero})
                    IN  RSum([n \in 1..Len(at) |->
                               RMul(X.val[<<p[1], at[n]>>], Y.val[<<at[n], p[2]>>])]))]

Add(X, Y) ==
    [kind |-> "matrix", shape |-> X.shape,
     val |-> Tabulate(Positions(X.shape), LAMBDA p : RAdd(X.val[p], Y.val[p]))]

(***************************************************************************)
(* The edge list file and the networkx graph built from it.                *)
(***************************************************************************)
Rows == NodeIds \X NodeIds

\* a file is an optional header line followed by data rows.  Files of fewer
\* than two lines are left out: they leave no row after the first line, and
\* what an empty edge list gives depends on the versions of the libraries
Files == {f \in [header : BOOLEAN, rows : SeqsUpTo(Rows, 1, MaxRows)] :
            Len(f.rows) + (IF f.header THEN 1 ELSE 0) >= 2}

\* pd.read_csv(edge_path, header=None): every line is data
ReadCsvNoHeader(f) == f.rows

\* pd.read_csv(edge_path).values.tolist(): the first line of the file names
\* the columns, the lines after it are the data
ReadCsv(f) == IF f.header THEN f.rows ELSE Tail(f.rows)

EmptyGraph == [nodes |-> <<>>, adj |-> {}]

AddNode(nodes, n) == IF n \in Range(nodes) THEN nodes ELSE Append(nodes, n)

RECURSIVE FromEdgelist(_, _)
FromEdgelist(g, rows) ==
    IF rows = <<>> THEN g
    ELSE LET e == Head(rows)
         IN  FromEdgelist([nodes |-> AddNode(AddNode(g.nodes, e[1]), e[2]),
                           adj |-> g.adj \cup {{e[1], e[2]}}],
                          Tail(rows))

\* graph.degree(node): the number of neighbours, a self-loop counting twice
Degree(g, n) ==
    Cardinality({e \in g.adj : n \in e}) + (IF {n} \in g.adj THEN 1 ELSE 0)

IndexOf(s, x) == CHOOSE k \in DOMAIN s : s[k] = x

\* graph.edges(): every edge once, from the node added first
GraphEdges(g) ==
    SetToSeq({<<u, v>> \in Range(g.nodes) \X Range(g.nodes) :
                {u, v} \in g.adj /\ IndexOf(g.nodes, u) <= IndexOf(g.nodes, v)})

(***************************************************************************)
(* normalize_adjacency                                                     *)
(***************************************************************************)
Ind(g) == [k \in 1..Len(g.nodes) |-> k - 1]

\* an inverse degree taken with numpy's division, which yields inf for 1/0
DegsNumpy(g) ==
    [kind |-> "list",
     val |-> [k \in 1..Len(g.nodes) |-> Rat(1, Degree(g, g.nodes[k]))]]

Degs(g) ==
    IF \E k \in DOMAIN g.nodes : Degree(g, g.nodes[k]) = 0
    THEN Raised("ZeroDivisionError")
    ELSE [kind |-> "list",
          val |-> [k \in 1..Len(g.nodes) |-> Rat(1, Degree(g, g.nodes[k]))]]

Index1(edges) ==
    [k \in 1..Len(edges) |-> edges[k][1]] \o [k \in 1..Len(edges) |-> edges[k][2]]

\* the second half of index_2 not swapped to the first endpoints
Index2Unswapped(edges) ==
    [k \in 1..Len(edges) |-> edges[k][2]] \o [k \in 1..Len(edges) |-> edges[k][2]]

Index2(edges) ==
    [k \in 1..Len(edges) |-> edges[k][2]] \o [k \in 1..Len(edges) |-> edges[k][1]]

Values(edges) ==
    [k \in 1..Len(edges) |-> One] \o [k \in 1..Len(edges) |-> One]

\* lines 80-85: the matrix before the multiplication by the inverse degrees
RawAdjacency(g) ==
    LET edges == GraphEdges(g)
    IN  CooMatrix(Values(edges), Index1(edges), Index2(edges),
                  <<Len(Ind(g)), Len(Ind(g))>>)

\* the locals of normalize_adjacency when it returns, or the exception
NormalizeLocals(g) ==
    LET degs == Degs(g)
        raw == RawAdjacency(g)
    IN  IF degs.kind = "error" THEN degs
        ELSE IF raw.kind = "error" THEN raw
        ELSE [kind |-> "locals", raw |-> raw,
              A |-> Dot(raw, CooMatrix(degs.val, Ind(g), Ind(g), raw.shape))]

NormalizeAdjacency(g) ==
    LET r == NormalizeLocals(g)
    IN  IF r.kind = "error" THEN r ELSE r.A

(***************************************************************************)
(* read_graph.  Matrices are objects on a heap and the local names A,      *)
(* powered_A and out_A hold references, so that two names bound to the     *)
(* same object are visible as such.                                        *)
(***************************************************************************)
NoRef == 0

NoValue == [kind |-> "none"]

\* X.dot(Y) and X + Y build a new matrix object and leave X and Y alone
DotObj(h, x, y) == [heap |-> Append(h, Dot(h[x], h[y])), ref |-> Len(h) + 1]

\* X += Y, which writes the sum into the object X names
AddInPlace(h, x, y) == [heap |-> [h EXCEPT ![x] = Add(h[x], h[y])], ref |-> x]

AddObj(h, x, y) == [heap |-> Append(h, Add(h[x], h[y])), ref |-> Len(h) + 1]

\* a loop over range(order) instead of range(order-1)
LoopCountOrder(k) == IF k > 0 THEN k ELSE 0

\* len(range(order-1)), the number of iterations of the loop
LoopCount(k) == IF k - 1 > 0 THEN k - 1 ELSE 0

\* graphs handed to normalize_adjacency by a caller other than read_graph:
\* nodes added in any order, isolated ones among them, and up to MaxRows edges
DirectGraphs ==
    {g \in [nodes : SeqsUpTo(NodeIds, 1, MaxDirectNodes),
            adj : SUBSET {{u, v} : <<u, v>> \in NodeIds \X NodeIds}] :
        /\ \A a, b \in DOMAIN g.nodes : a # b => g.nodes[a] # g.nodes[b]
        /\ \A e \in g.adj : e \subseteq Range(g.nodes)
        /\ Cardinality(g.adj) <= MaxRows}

InitGraph ==
    /\ \/ /\ pc = "read_graph"
          /\ file \in Files
          /\ order \in Orders
          /\ graph = EmptyGraph
       \/ /\ pc = "normalize_adjacency"
          /\ file = [header |-> FALSE, rows |-> <<>>]
          /\ order = 1
          /\ graph \in DirectGraphs
    /\ rawA = NoValue
    /\ heap = <<>>
    /\ A = NoRef
    /\ powered_A = NoRef
    /\ out_A = NoRef
    /\ i = 0
    /\ ret = NoValue
    /\ features = <<>>
    /\ argv = <<>>

\* line 98
ReadEdges ==
    /\ pc = "read_graph"
    /\ graph' = FromEdgelist(EmptyGraph, ReadCsv(file))
    /\ pc' = "call_normalize"
    /\ UNCHANGED <<file, order, rawA, heap, A, powered_A, out_A, i, ret,
                   features, argv>>

\* line 99: the call of normalize_adjacency; an exception ends read_graph
CallNormalize ==
    /\ pc = "call_normalize"
    /\ LET r == NormalizeLocals(graph)
       IN  IF r.kind = "error"
           THEN /\ ret' = r
                /\ pc' = "raised"
                /\ UNCHANGED <<rawA, heap, A>>
           ELSE /\ rawA' = r.raw
                /\ heap' = <<r.A>>
                /\ A' = 1
                /\ pc' = "branch"
                /\ UNCHANGED ret
    /\ UNCHANGED <<file, order, graph, powered_A, out_A, i, features, argv>>

\* lines 100-101
LoopInit ==
    /\ pc = "branch"
    /\ order > 1
    /\ powered_A' = A
    /\ out_A' = A
    /\ i' = 0
    /\ pc' = "loop"
    /\ UNCHANGED <<file, order, graph, rawA, heap, A, ret, features, argv>>

\* lines 102-104, one iteration
LoopStep ==
    /\ pc = "loop"
    /\ i < LoopCount(order)
    /\ LET p == DotObj(heap, powered_A, A)
           o == AddObj(p.heap, out_A, p.ref)
       IN  /\ powered_A' = p.ref
           /\ out_A' = o.ref
           /\ heap' = o.heap
    /\ i' = i + 1
    /\ UNCHANGED <<pc, file, order, graph, rawA, A, ret, features, argv>>

LoopEnd ==
    /\ pc = "loop"
    /\ ~(i < LoopCount(order))
    /\ pc' = "return"
    /\ UNCHANGED <<file, order, graph, rawA, heap, A, powered_A, out_A, i, ret,
                   features, argv>>

\* lines 105-106
ElseBranch ==
    /\ pc = "branch"
    /\ ~(order > 1)
    /\ out_A' = A
    /\ pc' = "return"
    /\ UNCHANGED <<file, order, graph, rawA, heap, A, powered_A, i, ret,
                   features, argv>>

\* line 108
Return ==
    /\ pc = "return"
    /\ ret' = heap[out_A]
    /\ pc' = "done"
    /\ UNCHANGED <<file, order, graph, rawA, heap, A, powered_A, out_A, i,
                   features, argv>>

\* normalize_adjacency called on a graph of the caller's own
NormalizeCall ==
    /\ pc = "normalize_adjacency"
    /\ LET r == NormalizeLocals(graph)
       IN  /\ ret' = IF r.kind = "error" THEN r ELSE r.A
           /\ rawA' = IF r.kind = "error" THEN NoValue ELSE r.raw
           /\ pc' = IF r.kind = "error" THEN "raised" ELSE "done"
    /\ UNCHANGED <<file, order, graph, heap, A, powered_A, out_A, i,
                   features, argv>>

NextGraph ==
    \/ ReadEdges
    \/ CallNormalize
    \/ LoopInit
    \/ LoopStep
    \/ LoopEnd
    \/ ElseBranch
    \/ Return
    \/ NormalizeCall

SpecGraph == InitGraph /\ [][NextGraph]_vars

(***************************************************************************)
(* Properties of read_graph and normalize_adjacency.                       *)
(***************************************************************************)
RECURSIVE MatPow(_, _)
MatPow(M, p) == IF p <= 1 THEN M ELSE Dot(MatPow(M, p - 1), M)

RECURSIVE SumPowers(_, _)
SumPowers(M, k) == IF k <= 1 THEN M ELSE Add(SumPowers(M, k - 1), MatPow(M, k))

InReadGraph == file.rows # <<>>

GraphBuilt == InReadGraph /\ pc # "read_graph"

Normalized == pc \in {"branch", "loop", "return", "done"}

\* the matrix normalize_adjacency returned
NormalizedMatrix == IF InReadGraph THEN heap[A] ELSE ret

Contiguous(g) == Range(g.nodes) = 0..(Len(g.nodes) - 1)

HasSelfLoop(g) == \E n \in Range(g.nodes) : {n} \in g.adj

HasIsolatedNode(g) == \E n \in Range(g.nodes) : Degree(g, n) = 0

AllFinite(M) == \A p \in Positions(M.shape) : IsFinite(M.val[p])

\* C1: for every order k >= 1 the matrix read_graph returns is
\* A^1 + ... + A^k of the normalized adjacency A, and for k = 1 it is the
\* object A itself
C1_TargetIsPowerSum ==
    (InReadGraph /\ pc = "done" /\ order >= 1) =>
        /\ ret = SumPowers(NormalizeAdjacency(graph), order)
        /\ order = 1 => (out_A = A /\ Len(heap) = 1)

C1_Witness ==
    /\ InReadGraph /\ pc = "done" /\ order = 3
    /\ ret # heap[A]
    /\ ret # Add(heap[A], MatPow(heap[A], 2))

\* C2 (as claimed): with contiguous node IDs, no self-loop and no isolated
\* node, the normalized matrix has 1/degree(j) at (i, j) when i and j are
\* adjacent and 0 elsewhere, degree(j) being the degree of the node with ID j,
\* whatever the order in which the nodes were first mentioned
C2_ColumnScaledByDegree ==
    (Normalized /\ Contiguous(graph) /\ ~HasSelfLoop(graph)) =>
        \A p \in Positions(NormalizedMatrix.shape) :
            NormalizedMatrix.val[p] =
                IF {p[1], p[2]} \in graph.adj
                THEN Rat(1, Degree(graph, p[2])) ELSE Zero

\* C3: a graph with a node of degree 0 makes normalize_adjacency raise
\* ZeroDivisionError; it returns no matrix, and no matrix it returns holds
\* an Inf or NaN entry
C3_DegreeZeroRaises ==
    /\ (pc \in {"raised", "done"} /\ HasIsolatedNode(graph)) =>
          /\ pc = "raised"
          /\ ret = Raised("ZeroDivisionError")
          /\ rawA = NoValue
    /\ (Normalized /\ ~InReadGraph) => AllFinite(ret)

C3_Witness ==
    /\ pc = "raised"
    /\ HasIsolatedNode(graph)
    /\ graph.adj # {}
    /\ ret = Raised("ZeroDivisionError")

\* C4 (as claimed): read_graph called with order < 1 ends in an error and
\* returns no matrix
C4_OrderBelowOneRejected ==
    (InReadGraph /\ order < 1 /\ pc \in {"return", "done"}) =>
        (pc = "done" /\ ret.kind = "error")

\* C7: the matrix normalize_adjacency builds for a graph of n nodes is n x n
\* and column i of the raw adjacency sums to the degree of node i,
\* self-loops included
C7_RawColumnSums ==
    Normalized =>
        LET n == Len(graph.nodes)
        IN  /\ rawA.shape = <<n, n>>
            /\ NormalizedMatrix.shape = <<n, n>>
            /\ \A c \in 0..(n - 1) :
                   RSum([r \in 1..n |-> rawA.val[<<r - 1, c>>]])
                       = Rat(Degree(graph, c), 1)

C7_Witness ==
    /\ Normalized
    /\ rawA.kind = "matrix"
    /\ \E n \in Range(graph.nodes) : {n} \in graph.adj /\ Degree(graph, n) = 3

\* C8 (as claimed): whether or not the file starts with a header, every
\* data row of the file is an edge of the graph
C8_EveryRowIsAnEdge ==
    GraphBuilt =>
        \A k \in DOMAIN file.rows :
            {file.rows[k][1], file.rows[k][2]} \in graph.adj

\* C8 (amended): the first line of the file is always taken as the header;
\* the edges of the graph are exactly the rows after the first line, so a
\* file without a header gives up its first data row
C8_RowsAfterFirstLineAreTheEdges ==
    GraphBuilt =>
        LET data == {k \in DOMAIN file.rows : file.header \/ k > 1}
        IN  /\ graph.adj = {{file.rows[k][1], file.rows[k][2]} : k \in data}
            /\ Range(graph.nodes) =
                   UNION {{file.rows[k][1], file.rows[k][2]} : k \in data}

C8_Witness ==
    /\ GraphBuilt
    /\ ~file.header
    /\ {file.rows[1][1], file.rows[1][2]} \notin graph.adj
    /\ graph.adj # {}

\* C10: with order > 1 the loop takes order-1 steps; after i steps the
\* powered matrix is A^(i+1) and the sum is A^1 + ... + A^(i+1); both start
\* as the object A, and A keeps its value through every step
C10_LoopInvariant ==
    (InReadGraph /\ order > 1 /\ pc \in {"loop", "return", "done"}) =>
        LET N == NormalizeAdjacency(graph)
        IN  /\ heap[A] = N
            /\ heap[powered_A] = MatPow(N, i + 1)
            /\ heap[out_A] = SumPowers(N, i + 1)
            /\ i <= order - 1
            /\ pc \in {"return", "done"} => i = order - 1
            /\ i = 0 => (powered_A = A /\ out_A = A)
            /\ i > 0 => (powered_A # A /\ out_A # A)

C10_Witness ==
    /\ InReadGraph /\ pc = "loop" /\ order = 3 /\ i = 2
    /\ heap[powered_A] # heap[A]
    /\ heap[out_A] # heap[powered_A]

(***************************************************************************)
(* read_sparse_features.  The JSON file maps node-ID strings to lists of   *)
(* feature indices; a key is the sequence of its decimal digits.           *)
(***************************************************************************)
FeatKeys == {<<d>> : d \in 0..MaxFeatNode}

Feats == 0..MaxFeat

NoFeat == 0 - 1

\* the members of the file in the order written: a key with one feature of
\* its list, or a key alone (NoFeat), which only opens the key's list
Items == FeatKeys \X (Feats \cup {NoFeat})

Group(items) ==
    [k \in {items[n][1] : n \in DOMAIN items} |->
        LET own == SelectSeq(items, LAMBDA it : it[1] = k /\ it[2] # NoFeat)
        IN  [n \in 1..Len(own) |-> own[n][2]]]

FeatureMaps == {Group(s) : s \in SeqsUpTo(Items, 0, MaxItems)}

\* int(k) of a string of decimal digits
RECURSIVE IntOf(_)
IntOf(digits) ==
    IF digits = <<>> THEN 0
    ELSE 10 * IntOf(SubSeq(digits, 1, Len(digits) - 1)) + digits[Len(digits)]

RECURSIVE Concat(_)
Concat(ss) == IF ss = <<>> THEN <<>> ELSE Head(ss) \o Concat(Tail(ss))

\* features.items(), the keys in the order of the dictionary
ItemKeys(fs) == SetToSeq(DOMAIN fs)

FeatIndex1(fs) ==
    LET ks == ItemKeys(fs)
    IN  Concat([n \in 1..Len(ks) |-> fs[ks[n]]])

FeatIndex2(fs) ==
    LET ks == ItemKeys(fs)
    IN  Concat([n \in 1..Len(ks) |->
                  [m \in 1..Len(fs[ks[n]]) |-> IntOf(ks[n])]])

FeatValues(fs) == [n \in 1..Len(FeatIndex1(fs)) |-> One]

Nodes(fs) ==
    LET ks == ItemKeys(fs)
    IN  [n \in 1..Len(ks) |-> IntOf(ks[n])]

\* the number of keys taken for the number of nodes
NodeCountLen(nodes) == Len(nodes)

NodeCount(nodes) == Max(Range(nodes)) + 1

FeatureCount(fs) ==
    Max({Max(Range(fs[k]) \cup {0}) : k \in DOMAIN fs}) + 1

ReadSparseFeatures(fs) ==
    IF Nodes(fs) = <<>> THEN Raised("ValueError")
    ELSE CooMatrix(FeatValues(fs), FeatIndex1(fs), FeatIndex2(fs),
                   <<FeatureCount(fs), NodeCount(Nodes(fs))>>)

Idle ==
    /\ file = [header |-> FALSE, rows |-> <<>>]
    /\ order = 1
    /\ graph = EmptyGraph
    /\ rawA = NoValue
    /\ heap = <<>>
    /\ A = NoRef
    /\ powered_A = NoRef
    /\ out_A = NoRef
    /\ i = 0
    /\ ret = NoValue

InitFeatures ==
    /\ pc = "read_sparse_features"
    /\ features \in FeatureMaps
    /\ argv = <<>>
    /\ Idle

\* lines 126-138
ReadSparseFeaturesCall ==
    /\ pc = "read_sparse_features"
    /\ ret' = ReadSparseFeatures(features)
    /\ pc' = IF ret'.kind = "error" THEN "raised" ELSE "done"
    /\ UNCHANGED <<file, order, graph, rawA, heap, A, powered_A, out_A, i,
                   features, argv>>

NextFeatures == ReadSparseFeaturesCall

SpecFeatures == InitFeatures /\ [][NextFeatures]_vars

(***************************************************************************)
(* parameter_parser: the options of type int.  A value on the command line *)
(* is the sequence of its characters.                                      *)
(***************************************************************************)
DefaultDimensions == 32
DefaultOrder == 2
DefaultIterations == 200

Chars == {"-", "0", "1"}

Absent == [given |-> FALSE, tok |-> <<>>]

Options ==
    {Absent} \cup {[given |-> TRUE, tok |-> t] : t \in SeqsUpTo(Chars, 1, MaxTokLen)}

DigitOf(c) == IF c = "1" THEN 1 ELSE 0

\* int(string): an optional sign and at least one digit
IsInt(tok) ==
    LET digits == IF tok # <<>> /\ tok[1] = "-" THEN Tail(tok) ELSE tok
    IN  digits # <<>> /\ \A n \in DOMAIN digits : digits[n] # "-"

ParseInt(tok) ==
    LET neg == tok[1] = "-"
        digits == IF neg THEN Tail(tok) ELSE tok
        n == IntOf([k \in 1..Len(digits) |-> DigitOf(digits[k])])
    IN  IF neg THEN 0 - n ELSE n

OptionValue(opt, default) == IF opt.given THEN ParseInt(opt.tok) ELSE default

\* parser.parse_args(): argparse exits when a value is no integer; it puts
\* no other condition on the value
ParameterParser(av) ==
    IF \E o \in {av.dimensions, av.order, av.iterations} : o.given /\ ~IsInt(o.tok)
    THEN Raised("SystemExit")
    ELSE [kind |-> "namespace",
          dimensions |-> OptionValue(av.dimensions, DefaultDimensions),
          order |-> OptionValue(av.order, DefaultOrder),
          iterations |-> OptionValue(av.iterations, DefaultIterations)]

InitArgs ==
    /\ pc = "parameter_parser"
    /\ argv \in [dimensions : Options, order : Options, iterations : Options]
    /\ features = <<>>
    /\ Idle

\* lines 18-70
ParameterParserCall ==
    /\ pc = "parameter_parser"
    /\ ret' = ParameterParser(argv)
    /\ pc' = IF ret'.kind = "error" THEN "raised" ELSE "done"
    /\ UNCHANGED <<file, order, graph, rawA, heap, A, powered_A, out_A, i,
                   features, argv>>

NextArgs == ParameterParserCall

SpecArgs == InitArgs /\ [][NextArgs]_vars

(***************************************************************************)
(* Properties of read_sparse_features and parameter_parser.                *)
(***************************************************************************)
Listed(fs) ==
    UNION {{<<fs[k][n], IntOf(k)>> : n \in DOMAIN fs[k]} : k \in DOMAIN fs}

Example == (<<0>> :> <<1, 3>>) @@ (<<2>> :> <<0>>)

\* C5: for a non-empty mapping read_sparse_features returns a matrix with
\* (max feature index)+1 rows and (max node ID)+1 columns whose non-zero
\* positions are exactly the (feature, node) pairs listed; the example
\* mapping gives 4 rows, 3 columns and 3 non-zero entries
C5_ShapeAndSupport ==
    (pc \in {"done", "raised"} /\ DOMAIN features # {}) =>
        /\ ret.kind = "matrix"
        /\ Listed(features) # {} =>
               ret.shape[1] = Max({p[1] : p \in Listed(features)}) + 1
        /\ ret.shape[2] = Max({IntOf(k) : k \in DOMAIN features}) + 1
        /\ {p \in Positions(ret.shape) : ret.val[p] # Zero} = Listed(features)
        /\ features = Example =>
               /\ ret.shape = <<4, 3>>
               /\ Cardinality({p \in Positions(ret.shape) : ret.val[p] # Zero}) = 3

C5_Witness ==
    /\ pc = "done"
    /\ features = Example
    /\ ret.kind = "matrix"

\* C6 (as claimed): every entry of the matrix read_sparse_features returns
\* is 1 or 0, also when a list names a feature more than once
C6_BinaryIndicator ==
    (pc = "done" /\ ret.kind = "matrix") =>
        \A p \in Positions(ret.shape) : ret.val[p] \in {Zero, One}

\* C9 (as claimed): parameter_parser returns no configuration whose
\* dimensions or iterations are 0 or negative
C9_NonPositiveRejected ==
    (pc = "done" /\ ret.kind = "namespace") =>
        (ret.dimensions > 0 /\ ret.iterations > 0)

====
